---- MODULE Spec2Model ----
(***************************************************************************)
(* Model of the risk gate and validation pipeline of the arbitrage bot:    *)
(*   src/risk/CircuitBreakerManager.js   (the circuit breaker singleton)   *)
(*   src/utils/ValidationManager.js      (orchestrator used by the bot)    *)
(*   src/utils/EnhancedValidationManager.js (orchestrator with breaker)    *)
(*   src/bot/EnhancedArbitrageBot.js     (scan loop and execution)         *)
(*   src/bot/BotMonitoringIntegration.js (start gate)                      *)
(* Amounts are integers in the smallest unit (BigInt in the source), time  *)
(* is Date.now() in milliseconds.  state.executionHistory is kept as its   *)
(* length: the code only pushes to it, empties it and reads its length     *)
(* (its entries go into notification details, never into a decision).      *)
(* state.breaches is the sequence of the reasons of the recorded breaches. *)
(***************************************************************************)
EXTENDS Integers, Sequences, FiniteSets, TLC

\* ------------------------------------------------------------------ bounds
\* Number of steps of TickMs the clock may advance.
MaxTicks == 1
\* Cap on the length of state.executionHistory between two daily resets.
MaxHistory == 3
\* Cap on the length of state.breaches.
MaxBreaches == 2
\* Cap on state.consecutiveFailures and on the run of losing recordings.
MaxRun == 3
\* Cap on stats.transactions.submitted.
MaxSubmitted == 2
MaxAudit == 12
\* the alert clock advances at most this many half throttle windows
MaxAlertTicks == 4
\* Cap on the scan loops alive at once.
MaxLoops == 2

\* ------------------------------------------------- configurations explored
\* circuitBreakers.maxConsecutiveFailures
FailureCfgs == {3}
\* circuitBreakers.maxDailyLoss, parsed to the smallest unit
DailyLossCfgs == {0, 1}
\* circuitBreakers.cooldownPeriodMinutes
CooldownCfgs == {1}
\* profit and gasUsed of one recorded execution (smallest units)
Profits == {0, 1}
GasCosts == {0, 1}

\* --------------------------------------------------------------- constants
\* cooldownPeriodMinutes * 60 * 1000
MsPerMinute == 60000
\* granularity of the modelled clock: one minute of Date.now()
TickMs == MsPerMinute
\* resetDailyStats keeps breaches.slice(-10)
KeepBreaches == 10
\* circuitBreakers.priceDeviationPercent
priceDeviationPercent == 5
\* circuitBreakers.liquidityThresholdPercent
liquidityThresholdPercent == 50
\* ValidationManager.maxGasPrice, validation.gas.maxGasPrice (gwei)
maxGasPrice == 100

VARIABLES
  enabled,                 \* this.enabled
  maxConsecutiveFailures,  \* this.maxConsecutiveFailures
  maxDailyLoss,            \* this.maxDailyLoss
  cooldownPeriodMinutes,   \* this.cooldownPeriodMinutes
  state,                   \* this.state of the CircuitBreakerManager singleton
  now,                     \* Date.now()
  last,                    \* observer: the last operation and what it returned
  lossRun,                 \* observer: losing recordings since the last winning one
  bot,                     \* EnhancedArbitrageBot and BotMonitoringIntegration
  telegram                 \* TelegramMonitor, and when each level was last delivered

breakerVars == <<enabled, maxConsecutiveFailures, maxDailyLoss, cooldownPeriodMinutes,
                 state, now, last, lossRun>>

\* Array.prototype.slice(-n)
SliceLast(s, n) == IF Len(s) <= n THEN s ELSE SubSeq(s, Len(s) - n + 1, Len(s))

\* the reasons passed to tripCircuitBreaker
MaxFailuresReason == "Max consecutive failures reached"
DailyLossReason == "Daily loss threshold exceeded"
PriceDeviationReason == "Excessive price deviation detected"
LiquidityReason == "Insufficient liquidity detected"
ManualReason == "Test circuit breaker activation"

\* The bot before it is constructed.  pc is the place of the scan loop:
\* "none" (not constructed), "idle" (no loop running), "begin" (top of a pass),
\* "candidates" (walking the token pairs), "execute" (inside _executeArbitrage,
\* before the transaction is sent), "confirm" (awaiting tx.wait()), "sleep"
\* (between passes).  timers counts the pending lock-release setTimeouts;
\* txWhileTripped observes whether a transaction was ever sent while the
\* breaker was tripped.  loops holds the place of every scan loop that
\* startScanning has started and that has not returned, and direct the place
\* of an _executeArbitrage call made from outside the loops.
InitialBot ==
  [pc |-> "none", autoExecute |-> FALSE, isRunning |-> FALSE, isScanning |-> FALSE,
   executionLock |-> FALSE, timers |-> 0, submitted |-> 0, txWhileTripped |-> FALSE,
   loops |-> <<>>, direct |-> "none"]

\* constructor: the initial this.state
InitialState ==
  [active |-> FALSE, consecutiveFailures |-> 0, dailyLoss |-> 0,
   cooldownUntil |-> 0, executionHistory |-> 0, breaches |-> <<>>]

\* observer record of one breaker operation: its name, the value it returned,
\* whether it threw, the net profit it was given; expired tells that the
\* operation reset an expired cooldown
BreakerOp(op, ret, threw, net) ==
  [op |-> op, ret |-> ret, threw |-> threw, net |-> net, expired |-> FALSE,
   reason |-> "", checks |-> <<>>, snapshot |-> "none", gasHigh |-> FALSE,
   raised |-> FALSE, dropped |-> 0]

NoOp == BreakerOp("none", FALSE, FALSE, 0)

\* ------------------------------------------------- CircuitBreakerManager
\* tripCircuitBreaker(reason, details) on state s at time t, breaker enabled
tripCircuitBreaker(s, reason, t) ==
  [s EXCEPT !.active = TRUE,
            !.cooldownUntil = t + cooldownPeriodMinutes * MsPerMinute,
            !.breaches = Append(@, reason)]

\* variant of recordProfit that also clears the trip
recordProfitClearingTrip(s) == [s EXCEPT !.consecutiveFailures = 0, !.active = FALSE]

\* recordExecution: the branch taken for netProfit > 0
recordProfit(s) == [s EXCEPT !.consecutiveFailures = 0]

\* variant of recordLoss without the consecutive-failure trip
recordLossWithoutTrip(s, netProfit, t) ==
  [s EXCEPT !.dailyLoss = @ + (IF netProfit < 0 THEN -netProfit ELSE netProfit),
            !.consecutiveFailures = @ + 1]

\* variant of recordLoss that evaluates the failure trip on the counter as it
\* was before this recording
recordLossStaleCheck(s, netProfit, t) ==
  LET s1 == [s EXCEPT !.dailyLoss = @ + (IF netProfit < 0 THEN -netProfit ELSE netProfit),
                      !.consecutiveFailures = @ + 1]
  IN IF s.consecutiveFailures >= maxConsecutiveFailures
       THEN tripCircuitBreaker(s1, MaxFailuresReason, t)
       ELSE s1

\* recordExecution: the branch taken for netProfit <= 0
recordLoss(s, netProfit, t) ==
  LET absoluteLoss == IF netProfit < 0 THEN -netProfit ELSE netProfit
      s1 == [s EXCEPT !.dailyLoss = @ + absoluteLoss,
                      !.consecutiveFailures = @ + 1]
  IN IF s1.consecutiveFailures >= maxConsecutiveFailures
       THEN tripCircuitBreaker(s1, MaxFailuresReason, t)
       ELSE s1

\* variant of checkDailyLoss that trips as soon as the limit is reached
checkDailyLossAtLimit(s, t) ==
  IF s.dailyLoss >= maxDailyLoss
    THEN tripCircuitBreaker(s, DailyLossReason, t)
    ELSE s

\* recordExecution: the daily-loss check that ends the method
checkDailyLoss(s, t) ==
  IF s.dailyLoss > maxDailyLoss
    THEN tripCircuitBreaker(s, DailyLossReason, t)
    ELSE s

\* recordExecution(profit, gasUsed, tokens) on state s at time t, breaker enabled
recordExecution(s, profit, gasUsed, t) ==
  LET netProfit == profit - gasUsed
      s1 == [s EXCEPT !.executionHistory = @ + 1]
      s2 == IF netProfit > 0 THEN recordProfit(s1) ELSE recordLoss(s1, netProfit, t)
  IN checkDailyLoss(s2, t)

\* isTripped(): the value returned
isTrippedResult(s, t) == enabled /\ s.active /\ t < s.cooldownUntil

\* variant of isTrippedState whose lazy reset also clears the failure counter
isTrippedStateClearingFailures(s, t) ==
  IF enabled /\ s.active /\ ~(t < s.cooldownUntil)
    THEN [s EXCEPT !.active = FALSE, !.consecutiveFailures = 0]
    ELSE s

\* variant of isTrippedState without the lazy reset
isTrippedStateWithoutReset(s, t) == s

\* isTripped(): the state it leaves (the lazy reset of an expired cooldown)
isTrippedState(s, t) ==
  IF enabled /\ s.active /\ ~(t < s.cooldownUntil)
    THEN [s EXCEPT !.active = FALSE]
    ELSE s

\* getStatus(): the active field of the returned object
getStatusActive(s, t) == s.active

\* variant of resetDailyStats that also clears the failure counter
resetDailyStatsAndFailures(s) ==
  [s EXCEPT !.dailyLoss = 0, !.executionHistory = 0, !.consecutiveFailures = 0,
            !.breaches = SliceLast(@, KeepBreaches)]

\* variant of resetDailyStats that keeps the oldest breaches
resetDailyStatsKeepingOldest(s) ==
  [s EXCEPT !.dailyLoss = 0,
            !.executionHistory = 0,
            !.breaches = IF Len(@) <= KeepBreaches THEN @ ELSE SubSeq(@, 1, KeepBreaches)]

\* resetDailyStats()
resetDailyStats(s) ==
  [s EXCEPT !.dailyLoss = 0,
            !.executionHistory = 0,
            !.breaches = SliceLast(@, KeepBreaches)]

\* checkMarketConditions(priceData, liquidityData): the reason it trips with, or "" 
marketTripReason(s, priceData, liquidityData) ==
  IF ~enabled \/ s.active THEN ""
  ELSE IF priceData.present /\ priceData.deviationPercent > priceDeviationPercent
    THEN PriceDeviationReason
  ELSE IF liquidityData.present /\ liquidityData.availablePercent < liquidityThresholdPercent
    THEN LiquidityReason
  ELSE ""

\* checkMarketConditions(priceData, liquidityData): the state it leaves
checkMarketConditions(s, priceData, liquidityData, t) ==
  LET r == marketTripReason(s, priceData, liquidityData)
  IN IF r = "" THEN s ELSE tripCircuitBreaker(s, r, t)

\* ------------------------------------------------------------ the inputs
\* priceData: null, or a deviation at or above the threshold
PriceData ==
  {[present |-> FALSE, deviationPercent |-> 0]}
  \cup [present : {TRUE}, deviationPercent : {priceDeviationPercent, priceDeviationPercent + 1}]
\* liquidityData: null, or an availability at or below the threshold
LiquidityData ==
  {[present |-> FALSE, availablePercent |-> 0]}
  \cup [present : {TRUE}, availablePercent : {liquidityThresholdPercent - 1, liquidityThresholdPercent}]

\* ------------------------------------------------------------ the actions
BreakerInit ==
  /\ enabled \in BOOLEAN
  /\ maxConsecutiveFailures \in FailureCfgs
  /\ maxDailyLoss \in DailyLossCfgs
  /\ cooldownPeriodMinutes \in CooldownCfgs
  /\ state = InitialState
  /\ now = 0
  /\ last = NoOp
  /\ lossRun = 0

cfgVars == <<enabled, maxConsecutiveFailures, maxDailyLoss, cooldownPeriodMinutes>>

\* the clock advances
Tick ==
  /\ now < MaxTicks * TickMs
  /\ now' = now + TickMs
  /\ UNCHANGED <<cfgVars, telegram, bot, state, last, lossRun>>

\* CircuitBreakerManager.recordExecution(profit, gasUsed, tokens)
RecordExecution(profit, gasUsed) ==
  LET s2 == IF enabled THEN recordExecution(state, profit, gasUsed, now) ELSE state
  IN /\ s2.executionHistory <= MaxHistory
     /\ Len(s2.breaches) <= MaxBreaches
     /\ s2.consecutiveFailures <= MaxRun
     /\ (profit - gasUsed > 0 \/ lossRun < MaxRun)
     /\ state' = s2
     /\ lossRun' = IF profit - gasUsed > 0 THEN 0 ELSE lossRun + 1
     /\ last' = BreakerOp("recordExecution", FALSE, FALSE, profit - gasUsed)
     /\ UNCHANGED <<cfgVars, telegram, bot, now>>

\* CircuitBreakerManager.isTripped()
IsTripped ==
  /\ state' = isTrippedState(state, now)
  /\ last' = [BreakerOp("isTripped", isTrippedResult(state, now), FALSE, 0)
                EXCEPT !.expired = state.active /\ ~isTrippedState(state, now).active]
  /\ UNCHANGED <<cfgVars, telegram, bot, now, lossRun>>

\* CircuitBreakerManager.getStatus(); with the breaker disabled this.state is
\* undefined and reading this.state.active throws
GetStatus ==
  /\ last' = BreakerOp("getStatus", enabled /\ getStatusActive(state, now), ~enabled, 0)
  /\ UNCHANGED <<cfgVars, telegram, bot, state, now, lossRun>>

\* CircuitBreakerManager.checkMarketConditions(priceData, liquidityData)
CheckMarketConditions(priceData, liquidityData) ==
  LET s2 == checkMarketConditions(state, priceData, liquidityData, now)
  IN /\ Len(s2.breaches) <= MaxBreaches
     /\ state' = s2
     /\ last' = BreakerOp("checkMarketConditions",
                          marketTripReason(state, priceData, liquidityData) = "", FALSE, 0)
     /\ UNCHANGED <<cfgVars, telegram, bot, now, lossRun>>

\* CircuitBreakerManager.tripCircuitBreaker(reason, details) called directly
TripCircuitBreaker ==
  LET s2 == IF enabled THEN tripCircuitBreaker(state, ManualReason, now) ELSE state
  IN /\ Len(s2.breaches) <= MaxBreaches
     /\ state' = s2
     /\ last' = BreakerOp("tripCircuitBreaker", FALSE, FALSE, 0)
     /\ UNCHANGED <<cfgVars, telegram, bot, now, lossRun>>

\* the midnight timer set up by setupDailyReset fires (only when enabled: the
\* constructor returns before setupDailyReset otherwise)
ResetDailyStats ==
  /\ enabled
  /\ state' = resetDailyStats(state)
  /\ last' = [BreakerOp("resetDailyStats", FALSE, FALSE, 0)
                EXCEPT !.dropped = Len(state.breaches) - Len(resetDailyStats(state).breaches)]
  /\ UNCHANGED <<cfgVars, telegram, bot, now, lossRun>>

\* CircuitBreakerManager.tripCircuitBreaker(reason, details), called often
\* enough between two daily resets to fill state.breaches past KeepBreaches
TripForAudit ==
  /\ enabled
  /\ Len(state.breaches) < MaxAudit
  /\ state' = tripCircuitBreaker(state, ManualReason, now)
  /\ last' = BreakerOp("tripCircuitBreaker", FALSE, FALSE, 0)
  /\ UNCHANGED <<cfgVars, telegram, bot, now, lossRun>>

\* ------------------------------------------------------ the orchestrators
\* What one validateOpportunity call meets: the provider's gas price (ok is
\* FALSE when getFeeData fails), how each sub-validator answers the candidate
\* ("pass", "fail": a rejection, "throw": an exception), whether
\* config.simulateBeforeExecution is set, and the value that
\* setValidationEnabled last gave EnhancedValidationManager.validationEnabled
\* (TRUE from the constructor; nothing else reads or writes that flag).
Outcomes == {"pass", "fail", "throw"}
GasObservations ==
  {[ok |-> TRUE, gwei |-> maxGasPrice], [ok |-> TRUE, gwei |-> maxGasPrice + 1],
   [ok |-> FALSE, gwei |-> 0]}
GasNormal(in) == in.gas.ok /\ in.gas.gwei <= maxGasPrice
\* answers of checks that no orchestrator can reach are fixed to "pass"
ValidationInputs ==
  {in \in [gas : GasObservations, liquidity : Outcomes, price : Outcomes,
           profit : Outcomes, simulate : BOOLEAN,
           validationEnabled : BOOLEAN] :
     /\ in.liquidity # "pass" => (in.price = "pass" /\ in.profit = "pass")
     /\ in.price # "pass" => in.profit = "pass"
     /\ ~GasNormal(in) => in.profit = "pass"
     /\ in.simulate =>
          (GasNormal(in) /\ in.liquidity = "pass" /\ in.price = "pass" /\ in.profit = "pass")
     /\ ~in.validationEnabled =>
          (in.liquidity = "pass" /\ in.price = "pass" /\ in.profit = "pass" /\ ~in.simulate)}

Verdict(isValid, reason, checks, snapshot) ==
  [isValid |-> isValid, reason |-> reason, checks |-> checks, snapshot |-> snapshot]

\* checkGasPrice() letting a failed fee query pass
checkGasPriceIgnoringError(gas) ==
  IF gas.ok /\ gas.gwei > maxGasPrice THEN [isValid |-> FALSE, reason |-> "Gas price too high"]
  ELSE [isValid |-> TRUE, reason |-> ""]

\* ValidationManager.checkGasPrice()
checkGasPrice(gas) ==
  IF ~gas.ok THEN [isValid |-> FALSE, reason |-> "Error checking gas price"]
  ELSE IF gas.gwei > maxGasPrice THEN [isValid |-> FALSE, reason |-> "Gas price too high"]
  ELSE [isValid |-> TRUE, reason |-> ""]

\* ValidationManager.validateOpportunity(opportunity): steps 2 to 5, entered
\* once the gas price check has passed
validateAfterGas(in) ==
  LET c1 == <<"gas_price", "liquidity">>
      c2 == Append(c1, "price")
      c3 == Append(c2, "profitability")
      c4 == IF in.simulate THEN Append(c3, "simulation") ELSE c3
  IN IF in.liquidity = "throw" THEN Verdict(FALSE, "Validation error", c1, "none")
     ELSE IF in.liquidity = "fail" THEN Verdict(FALSE, "Insufficient liquidity", c1, "none")
     ELSE IF in.price = "throw" THEN Verdict(FALSE, "Validation error", c2, "none")
     ELSE IF in.price = "fail" THEN Verdict(FALSE, "Unrealistic price difference", c2, "none")
     ELSE IF in.profit = "throw"
       THEN Verdict(FALSE, "Error calculating profitability", c3, "none")
     ELSE IF in.profit = "fail" THEN Verdict(FALSE, "Not profitable after costs", c3, "none")
     ELSE Verdict(TRUE, "", c4, "none")

\* ValidationManager.validateOpportunity(opportunity)
validateOpportunity(in) ==
  LET gasPriceCheck == checkGasPrice(in.gas)
  IN IF ~gasPriceCheck.isValid
       THEN Verdict(FALSE, gasPriceCheck.reason, <<"gas_price">>, "none")
       ELSE validateAfterGas(in)

\* EnhancedValidationManager._validateGasCosts(opportunity), run after the
\* checks already made
validateGasCosts(in, checks) ==
  IF ~in.gas.ok
    THEN Verdict(FALSE, "Gas validation error", Append(checks, "gas_price"), "none")
  ELSE IF in.gas.gwei > maxGasPrice
    THEN Verdict(FALSE, "Gas price too high", Append(checks, "gas_price"), "none")
  ELSE IF in.profit = "throw"
    THEN Verdict(FALSE, "Gas validation error",
                 checks \o <<"gas_price", "profitability">>, "none")
  ELSE IF in.profit = "fail"
    THEN Verdict(FALSE, "Not profitable after costs",
                 checks \o <<"gas_price", "profitability">>, "none")
  ELSE Verdict(TRUE, "", checks \o <<"gas_price", "profitability">>, "none")

\* EnhancedValidationManager.validateOpportunity(opportunity): the try block,
\* entered once the breaker gate has been passed
enhancedPipeline(in) ==
  LET c1 == <<"breaker", "liquidity">>
      c2 == Append(c1, "price")
  IN IF in.liquidity = "throw" THEN Verdict(FALSE, "Validation error", c1, "none")
     ELSE IF in.liquidity = "fail" THEN Verdict(FALSE, "Insufficient liquidity", c1, "none")
     ELSE IF in.price = "throw" THEN Verdict(FALSE, "Validation error", c2, "none")
     ELSE IF in.price = "fail" THEN Verdict(FALSE, "Unrealistic price difference", c2, "none")
     ELSE validateGasCosts(in, c2)

\* EnhancedValidationManager.validateOpportunity(opportunity) on breaker
\* state s at time t
enhancedValidateOpportunity(in, s, t) ==
  IF ~in.validationEnabled THEN Verdict(TRUE, "Validation disabled", <<>>, "none")
  ELSE IF isTrippedResult(s, t)
    THEN Verdict(FALSE, "Circuit breaker active", <<"breaker">>,
                 IF getStatusActive(isTrippedState(s, t), t) THEN "active" ELSE "inactive")
  ELSE enhancedPipeline(in)

\* an exception was raised inside one of the checks that ran
RaisedIn(in, checks) ==
  LET ran(c) == \E i \in 1..Len(checks) : checks[i] = c
  IN \/ ran("gas_price") /\ ~in.gas.ok
     \/ ran("liquidity") /\ in.liquidity = "throw"
     \/ ran("price") /\ in.price = "throw"
     \/ ran("profitability") /\ in.profit = "throw"

\* observer record of one validateOpportunity call
ValidationOp(op, v, in) ==
  [op |-> op, ret |-> v.isValid, threw |-> FALSE, net |-> 0, expired |-> FALSE,
   reason |-> v.reason, checks |-> v.checks, snapshot |-> v.snapshot,
   gasHigh |-> (in.gas.ok /\ in.gas.gwei > maxGasPrice),
   raised |-> RaisedIn(in, v.checks), dropped |-> 0]

\* ValidationManager.validateOpportunity(opportunity): it never touches the breaker
ValidateOpportunity(in) ==
  /\ last' = ValidationOp("validateOpportunity", validateOpportunity(in), in)
  /\ UNCHANGED <<cfgVars, telegram, bot, state, now, lossRun>>

\* EnhancedValidationManager.validateOpportunity(opportunity): its gate calls
\* CircuitBreakerManager.isTripped()
EnhancedValidateOpportunity(in) ==
  /\ state' = IF in.validationEnabled THEN isTrippedState(state, now) ELSE state
  /\ last' = [ValidationOp("enhancedValidateOpportunity",
                           enhancedValidateOpportunity(in, state, now), in)
                EXCEPT !.expired = in.validationEnabled /\ state.active
                                   /\ ~isTrippedState(state, now).active]
  /\ UNCHANGED <<cfgVars, telegram, bot, now, lossRun>>


\* ------------------------------------- EnhancedArbitrageBot and its start
\* new EnhancedArbitrageBot(provider, config) and initialize(); autoExecute is
\* config.autoExecute
BotInitialize(autoExecute) ==
  /\ bot.pc = "none"
  /\ bot' = [bot EXCEPT !.pc = "idle", !.autoExecute = autoExecute]
  /\ UNCHANGED <<cfgVars, telegram, state, now, last, lossRun>>

\* BotMonitoringIntegration.start(): refuses when already running or when
\* isTripped(), else starts the scan loop (startScanning returns at once when
\* a loop is already scanning).  pc follows one loop; the further loops that
\* a stop followed by a start leaves alive are followed in bot.loops by the
\* scan-loop actions below
BotStart ==
  /\ bot.pc # "none"
  /\ ~bot.isRunning
  /\ state' = isTrippedState(state, now)
  /\ bot' = IF isTrippedResult(state, now) THEN bot
            ELSE IF bot.isScanning THEN [bot EXCEPT !.isRunning = TRUE]
            ELSE [bot EXCEPT !.isRunning = TRUE, !.isScanning = TRUE,
                             !.pc = IF bot.pc = "idle" THEN "begin" ELSE @]
  /\ last' = [BreakerOp("isTripped", isTrippedResult(state, now), FALSE, 0)
                EXCEPT !.expired = state.active /\ ~isTrippedState(state, now).active]
  /\ UNCHANGED <<cfgVars, telegram, now, lossRun>>

\* BotMonitoringIntegration.stop(): stopScanning() clears isScanning; the loop
\* ends when it next tests the flag
BotStop ==
  /\ bot.isRunning
  /\ bot' = [bot EXCEPT !.isRunning = FALSE, !.isScanning = FALSE]
  /\ UNCHANGED <<cfgVars, telegram, state, now, last, lossRun>>

\* _scanDexArbitrageOpportunities: the gas price test that opens a pass; a
\* failing getFeeData throws into the loop's catch, which sleeps too
ScanBegin(gas) ==
  /\ bot.pc = "begin"
  /\ bot' = [bot EXCEPT !.pc = IF gas.ok /\ gas.gwei <= maxGasPrice
                                  THEN "candidates" ELSE "sleep"]
  /\ UNCHANGED <<cfgVars, telegram, state, now, last, lossRun>>

\* _scanDexArbitrageOpportunities: one candidate found by
\* _findArbitrageOpportunity is validated by ValidationManager and, when valid
\* with autoExecute set and the lock free, handed to _executeArbitrage, which
\* takes the lock before its first await
ScanCandidate(in) ==
  /\ bot.pc = "candidates"
  /\ last' = ValidationOp("validateOpportunity", validateOpportunity(in), in)
  /\ bot' = IF validateOpportunity(in).isValid /\ bot.autoExecute /\ ~bot.executionLock
              THEN [bot EXCEPT !.pc = "execute", !.executionLock = TRUE]
              ELSE bot
  /\ UNCHANGED <<cfgVars, telegram, state, now, lossRun>>

\* _scanDexArbitrageOpportunities returns: the pass is over, the loop sleeps
ScanEnd ==
  /\ bot.pc = "candidates"
  /\ bot' = [bot EXCEPT !.pc = "sleep"]
  /\ UNCHANGED <<cfgVars, telegram, state, now, last, lossRun>>

\* the sleep between passes ends and the loop tests isScanning
ScanWake ==
  /\ bot.pc = "sleep"
  /\ bot' = [bot EXCEPT !.pc = IF bot.isScanning THEN "begin" ELSE "idle"]
  /\ UNCHANGED <<cfgVars, telegram, state, now, last, lossRun>>

\* _executeArbitrage from taking the lock to
\* flashLoanContract.executeArbitrage(...): the transaction is sent, or
\* (sent = FALSE) a step before it throws and the finally block schedules the
\* release of the lock
ExecuteSubmit(sent) ==
  /\ bot.pc = "execute"
  /\ sent => bot.submitted < MaxSubmitted
  /\ bot' = IF sent
              THEN [bot EXCEPT !.pc = "confirm", !.submitted = @ + 1,
                               !.txWhileTripped = @ \/ isTrippedResult(state, now)]
              ELSE [bot EXCEPT !.pc = "candidates", !.timers = @ + 1]
  /\ UNCHANGED <<cfgVars, telegram, state, now, last, lossRun>>

\* _executeArbitrage after tx.wait(): the result is returned and the finally
\* block schedules the release of the lock
ExecuteConfirm ==
  /\ bot.pc = "confirm"
  /\ bot' = [bot EXCEPT !.pc = "candidates", !.timers = @ + 1]
  /\ UNCHANGED <<cfgVars, telegram, state, now, last, lossRun>>

\* the setTimeout of _executeArbitrage's finally block fires
LockRelease ==
  /\ bot.timers > 0
  /\ bot' = [bot EXCEPT !.executionLock = FALSE, !.timers = @ - 1]
  /\ UNCHANGED <<cfgVars, telegram, state, now, last, lossRun>>

\* ------------------------------- the scan loops and the execution lock
\* Every await of startScanning and _executeArbitrage is a place where
\* other callbacks run; the code between two awaits runs to completion.
\* the scan loops alive, and the _executeArbitrage calls between taking the
\* lock and returning
ActiveLoops(b) == Len(b.loops)
InFlight(b) ==
  Cardinality({i \in 1..Len(b.loops) : b.loops[i] \in {"execute", "confirm"}})
  + (IF b.direct = "none" THEN 0 ELSE 1)

\* a sequence without its i-th element
RemoveAt(s, i) == SubSeq(s, 1, i - 1) \o SubSeq(s, i + 1, Len(s))

\* startScanning(): returns at once when isScanning is set, else sets it and
\* enters the loop, which runs to its first await
startScanning(b) ==
  IF b.isScanning THEN b
  ELSE [b EXCEPT !.isScanning = TRUE, !.loops = Append(@, "begin")]

\* stopScanning()
stopScanning(b) == [b EXCEPT !.isScanning = FALSE]

\* variant of executeArbitrageLocked with the lock test inside the try
\* block, so that the finally block schedules a release
executeArbitrageLockedInsideTry(b) == [b EXCEPT !.timers = @ + 1]

\* _executeArbitrage called with executionLock set: it returns
\* {success: false, reason: 'Execution locked'} before the try block
executeArbitrageLocked(b) == b

\* _executeArbitrage returns or throws: the finally block schedules the
\* release of the lock
executeArbitrageFinally(b) == [b EXCEPT !.timers = @ + 1]

\* EnhancedArbitrageBot.startScanning()
StartScanning ==
  /\ bot.isScanning \/ Len(bot.loops) < MaxLoops
  /\ bot' = startScanning(bot)
  /\ last' = [op |-> "startScanning", ret |-> IF bot.isScanning THEN "already scanning"
                                               ELSE "started"]
  /\ UNCHANGED <<cfgVars, telegram, state, now, lossRun>>

\* EnhancedArbitrageBot.stopScanning()
StopScanning ==
  /\ bot' = stopScanning(bot)
  /\ last' = [op |-> "stopScanning", ret |-> ""]
  /\ UNCHANGED <<cfgVars, telegram, state, now, lossRun>>

\* loop i, _scanDexArbitrageOpportunities: the gas price test that opens a
\* pass; a failing getFeeData throws into the loop's catch, which sleeps too
LoopBegin(i, gas) ==
  /\ i \in 1..Len(bot.loops) /\ bot.loops[i] = "begin"
  /\ bot' = [bot EXCEPT !.loops[i] = IF gas.ok /\ gas.gwei <= maxGasPrice
                                       THEN "candidates" ELSE "sleep"]
  /\ UNCHANGED <<cfgVars, telegram, state, now, last, lossRun>>

\* loop i: one candidate comes back from validateOpportunity; when it is
\* valid with autoExecute set and the lock free, _executeArbitrage is called
\* and takes the lock before its first await
LoopCandidate(i, isValid) ==
  /\ i \in 1..Len(bot.loops) /\ bot.loops[i] = "candidates"
  /\ bot' = IF isValid /\ bot.autoExecute /\ ~bot.executionLock
              THEN [bot EXCEPT !.loops[i] = "execute", !.executionLock = TRUE]
              ELSE bot
  /\ last' = IF isValid /\ bot.autoExecute /\ ~bot.executionLock
               THEN [op |-> "_executeArbitrage", ret |-> "started"]
               ELSE [op |-> "candidate", ret |-> IF isValid THEN "skipped" ELSE "invalid"]
  /\ UNCHANGED <<cfgVars, telegram, state, now, lossRun>>

\* loop i: _scanDexArbitrageOpportunities returns and the loop sleeps
LoopEnd(i) ==
  /\ i \in 1..Len(bot.loops) /\ bot.loops[i] = "candidates"
  /\ bot' = [bot EXCEPT !.loops[i] = "sleep"]
  /\ UNCHANGED <<cfgVars, telegram, state, now, last, lossRun>>

\* loop i: the sleep ends and the loop tests isScanning; it goes on or returns
LoopWake(i) ==
  /\ i \in 1..Len(bot.loops) /\ bot.loops[i] = "sleep"
  /\ bot' = IF bot.isScanning THEN [bot EXCEPT !.loops[i] = "begin"]
            ELSE [bot EXCEPT !.loops = RemoveAt(@, i)]
  /\ last' = [op |-> "loopWake", ret |-> IF bot.isScanning THEN "next pass" ELSE "returned"]
  /\ UNCHANGED <<cfgVars, telegram, state, now, lossRun>>

\* loop i, _executeArbitrage: the transaction is sent, or (sent = FALSE) a
\* step before it throws
LoopSubmit(i, sent) ==
  /\ i \in 1..Len(bot.loops) /\ bot.loops[i] = "execute"
  /\ sent => bot.submitted < MaxSubmitted
  /\ bot' = IF sent
              THEN [bot EXCEPT !.loops[i] = "confirm", !.submitted = @ + 1]
              ELSE [executeArbitrageFinally(bot) EXCEPT !.loops[i] = "candidates"]
  /\ UNCHANGED <<cfgVars, telegram, state, now, last, lossRun>>

\* loop i, _executeArbitrage after tx.wait()
LoopConfirm(i) ==
  /\ i \in 1..Len(bot.loops) /\ bot.loops[i] = "confirm"
  /\ bot' = [executeArbitrageFinally(bot) EXCEPT !.loops[i] = "candidates"]
  /\ UNCHANGED <<cfgVars, telegram, state, now, last, lossRun>>

\* _executeArbitrage(opportunity) called from outside the loops
ExecuteArbitrageDirect ==
  /\ bot.direct = "none" \/ bot.executionLock
  /\ bot' = IF bot.executionLock THEN executeArbitrageLocked(bot)
            ELSE [bot EXCEPT !.executionLock = TRUE, !.direct = "execute"]
  /\ last' = [op |-> "_executeArbitrage",
              ret |-> IF bot.executionLock THEN "Execution locked" ELSE "started"]
  /\ UNCHANGED <<cfgVars, telegram, state, now, lossRun>>

\* the call from outside the loops sends its transaction, or throws before
DirectSubmit(sent) ==
  /\ bot.direct = "execute"
  /\ sent => bot.submitted < MaxSubmitted
  /\ bot' = IF sent
              THEN [bot EXCEPT !.direct = "confirm", !.submitted = @ + 1]
              ELSE [executeArbitrageFinally(bot) EXCEPT !.direct = "none"]
  /\ UNCHANGED <<cfgVars, telegram, state, now, last, lossRun>>

\* the call from outside the loops returns after tx.wait()
DirectConfirm ==
  /\ bot.direct = "confirm"
  /\ bot' = [executeArbitrageFinally(bot) EXCEPT !.direct = "none"]
  /\ UNCHANGED <<cfgVars, telegram, state, now, last, lossRun>>

\* loops started and stopped at any await, their passes and executions
ScanNext ==
  \/ StartScanning
  \/ StopScanning
  \/ \E i \in 1..MaxLoops, gas \in GasObservations : LoopBegin(i, gas)
  \/ \E i \in 1..MaxLoops, isValid \in BOOLEAN : LoopCandidate(i, isValid)
  \/ \E i \in 1..MaxLoops : LoopEnd(i)
  \/ \E i \in 1..MaxLoops : LoopWake(i)
  \/ \E i \in 1..MaxLoops, sent \in BOOLEAN : LoopSubmit(i, sent)
  \/ \E i \in 1..MaxLoops : LoopConfirm(i)
  \/ ExecuteArbitrageDirect
  \/ \E sent \in BOOLEAN : DirectSubmit(sent)
  \/ DirectConfirm
  \/ LockRelease

\* ------------------------------------------ the price plausibility checks
\* Percentages are integers in hundredths of a percent (0.5% is 50).
\* the token lists of PriceValidator.getDeviationThreshold
stablecoins == {"USDC", "USDT", "DAI", "BUSD", "TUSD", "FRAX"}
mainstream == {"WETH", "WBTC", "WBNB", "MATIC"}
defi == {"AAVE", "UNI", "SUSHI", "COMP", "MKR", "CRV", "YFI"}

\* variant of getDeviationThreshold giving stablecoin pairs the mainstream threshold
getDeviationThresholdLooseStable(tokenASymbol, tokenBSymbol) ==
  IF tokenASymbol \in stablecoins /\ tokenBSymbol \in stablecoins THEN 50
  ELSE IF tokenASymbol \in mainstream /\ tokenBSymbol \in mainstream THEN 50
  ELSE IF \/ tokenASymbol \in stablecoins /\ tokenBSymbol \in mainstream
          \/ tokenBSymbol \in stablecoins /\ tokenASymbol \in mainstream THEN 75
  ELSE IF /\ tokenASymbol \in defi \/ tokenBSymbol \in defi
          /\ tokenASymbol \in mainstream \/ tokenBSymbol \in mainstream THEN 125
  ELSE 100

\* PriceValidator.getDeviationThreshold(tokenASymbol, tokenBSymbol)
getDeviationThreshold(tokenASymbol, tokenBSymbol) ==
  IF tokenASymbol \in stablecoins /\ tokenBSymbol \in stablecoins THEN 20
  ELSE IF tokenASymbol \in mainstream /\ tokenBSymbol \in mainstream THEN 50
  ELSE IF \/ tokenASymbol \in stablecoins /\ tokenBSymbol \in mainstream
          \/ tokenBSymbol \in stablecoins /\ tokenASymbol \in mainstream THEN 75
  ELSE IF /\ tokenASymbol \in defi \/ tokenBSymbol \in defi
          /\ tokenASymbol \in mainstream \/ tokenBSymbol \in mainstream THEN 125
  ELSE 100

\* variant of getRecentSpreads that returns the default window for every pair
getRecentSpreadsDefaultOnly(tokenA, tokenB) ==
  <<20, 30, 25, 22, 18, 26, 21, 28>>

\* PriceValidator.getRecentSpreads(pairKey): the two hard-coded windows
getRecentSpreads(tokenA, tokenB) ==
  IF {tokenA, tokenB} \cap {"USDC", "USDT", "DAI"} # {}
    THEN <<5, 6, 4, 7, 5, 8, 6, 5>>
    ELSE <<20, 30, 25, 22, 18, 26, 21, 28>>

RECURSIVE SumSeq(_)
SumSeq(s) == IF s = <<>> THEN 0 ELSE Head(s) + SumSeq(Tail(s))

\* PriceValidator.checkAgainstRecentSpreads: currentSpread > avg + 3 * stdDev,
\* with avg = S / n and stdDev = sqrt(n * Q - S * S) / n for the sum S and
\* the sum of squares Q of the n recent spreads, compared without the root
checkAgainstRecentSpreads(tokenA, tokenB, currentSpread) ==
  LET recentSpreads == getRecentSpreads(tokenA, tokenB)
      n == Len(recentSpreads)
      S == SumSeq(recentSpreads)
      Q == SumSeq([i \in 1..n |-> recentSpreads[i] * recentSpreads[i]])
      d == n * currentSpread - S
  IN ~(d > 0 /\ d * d > 9 * (n * Q - S * S))

\* the tokens that updateMarketPrices has a price for
marketPriced ==
  {"WETH", "WBTC", "USDC", "USDT", "DAI", "WBNB", "MATIC",
   "AAVE", "UNI", "SUSHI", "COMP", "MKR", "CRV", "YFI"}

\* PriceValidator.compareWithMarketPrices(tokenA, tokenB, spreadPercentage)
compareWithMarketPrices(tokenA, tokenB, spreadPercentage) ==
  ~(tokenA \in marketPriced /\ tokenB \in marketPriced /\ spreadPercentage > 200)

\* PriceValidator.checkForAttackPatterns(opportunity); large is
\* parseFloat(amountIn) > 10000
checkForAttackPatterns(spreadPercentage, large) ==
  ~(spreadPercentage > 500 /\ large)

\* PriceValidator.validatePriceDifference(opportunity)
PriceValidatorValidatePriceDifference(c) ==
  LET threshold == getDeviationThreshold(c.tokenA, c.tokenB)
  IN IF c.spread > threshold
       THEN IF ~checkAgainstRecentSpreads(c.tokenA, c.tokenB, c.spread)
              THEN [isValid |-> FALSE, failed |-> "recent_spreads", warning |-> FALSE]
            ELSE IF ~compareWithMarketPrices(c.tokenA, c.tokenB, c.spread)
              THEN [isValid |-> FALSE, failed |-> "market_prices", warning |-> FALSE]
            ELSE IF ~checkForAttackPatterns(c.spread, c.large)
              THEN [isValid |-> FALSE, failed |-> "attack_patterns", warning |-> FALSE]
            ELSE [isValid |-> TRUE, failed |-> "", warning |-> TRUE]
       ELSE [isValid |-> TRUE, failed |-> "", warning |-> FALSE]

\* LiquidityValidator.validatePriceDifference(tokenA, tokenB, amountIn,
\* buyAmount, sellAmount): the rates are BigInt quotients scaled by 10000,
\* and deviation > max is |sellRate * buyRate - 1| * 100 > max with both
\* sides multiplied by 10^6
LiquidityValidatorValidatePriceDifference(c) ==
  LET buyRate == (c.buyAmount * 10000) \div c.amountIn
      sellRate == (c.sellAmount * 10000) \div c.buyAmount
      p == sellRate * buyRate - 100000000
      deviation == IF p < 0 THEN -p ELSE p
      isStablePair == c.tokenA \in stablecoins \cup {"USDN"}
                      /\ c.tokenB \in stablecoins \cup {"USDN"}
      maxAllowedDeviation ==
        IF isStablePair THEN 250000
        ELSE IF c.tokenA \in {"WETH", "WBTC"} \/ c.tokenB \in {"WETH", "WBTC"} THEN 750000
        ELSE 1500000
  IN deviation <= maxAllowedDeviation

\* ValidationManager.validateOpportunity, steps 2 and 3 and the verdict, for
\* a candidate whose gas price, depth of both legs and profitability pass
pricePipeline(c) ==
  LET priceCheck == PriceValidatorValidatePriceDifference(c)
  IN IF ~LiquidityValidatorValidatePriceDifference(c)
       THEN [isValid |-> FALSE, reason |-> "Unrealistic price difference", warnings |-> {}]
     ELSE IF ~priceCheck.isValid
       THEN [isValid |-> FALSE, reason |-> priceCheck.failed, warnings |-> {}]
     ELSE [isValid |-> TRUE, reason |-> "",
           warnings |-> IF priceCheck.warning THEN {"price"} ELSE {}]

\* the candidates: pairs of tokens of every class and an unlisted one, spreads at
\* and next to every limit of the checks, and second legs returning the
\* input with 0%, 0.2%, 0.3%, 0.8% and 1.6% on top
PriceTokens == {"USDC", "BUSD", "TUSD", "WETH", "WBTC", "UNI", "LINK"}
PriceSpreads == {5, 9, 10, 20, 21, 30, 35, 36, 50, 51, 75, 76, 100, 101,
                 125, 126, 200, 201, 500, 501}
PriceCandidates ==
  {c \in [tokenA : PriceTokens, tokenB : PriceTokens, spread : PriceSpreads,
          large : BOOLEAN, amountIn : {10000}, buyAmount : {10000},
          sellAmount : {10000, 10020, 10030, 10080, 10160}] : c.tokenA # c.tokenB}

\* a candidate goes through the price checks of the pipeline; the checks keep
\* no state between candidates, so a behaviour follows one candidate
ValidatePrice(c) ==
  /\ last = NoOp
  /\ last' = [op |-> "validatePrice", candidate |-> c,
              price |-> PriceValidatorValidatePriceDifference(c),
              verdict |-> pricePipeline(c)]
  /\ UNCHANGED <<cfgVars, telegram, bot, state, now, lossRun>>

PriceNext == \E c \in PriceCandidates : ValidatePrice(c)

\* --------------------------------------------- the profitability checks
\* Amounts are whole US dollars; minProfitMultiplier is in tenths (2.0 is 20).
\* config.minProfitUsd || 10
minProfitUsdOrDefault(minProfitUsd) == IF minProfitUsd = 0 THEN 10 ELSE minProfitUsd

\* ValidationManager.analyzeProfitability(opportunity, gasPrice), from the
\* costs it has computed on
analyzeProfitability(o) ==
  LET netProfitUsd == o.profitUsd - o.flashLoanFeeUsd - o.gasCostUsd
      \* profitToGasRatio >= this.minProfitMultiplier, the ratio being 0
      \* when gasCostUsd is 0
      requiredProfitMultiplier ==
        IF o.gasCostUsd > 0 THEN 10 * netProfitUsd >= o.minProfitMultiplier * o.gasCostUsd
        ELSE 0 >= o.minProfitMultiplier
  IN IF netProfitUsd <= minProfitUsdOrDefault(o.minProfitUsd)
       THEN [isValid |-> FALSE, reason |-> "Net profit below minimum threshold",
             netProfitUsd |-> netProfitUsd]
     ELSE IF ~requiredProfitMultiplier
       THEN [isValid |-> FALSE, reason |-> "Profit/gas ratio below required multiplier",
             netProfitUsd |-> netProfitUsd]
     ELSE [isValid |-> TRUE, reason |-> "", netProfitUsd |-> netProfitUsd]

\* EnhancedValidationManager._validateGasCosts(opportunity), past its gas
\* price gate, from the costs it has computed
validateGasCostsProfit(o) ==
  LET totalCostsUsd == o.gasCostUsd + o.flashLoanFeeUsd
      netProfitUsd == o.profitUsd - totalCostsUsd
  IN IF netProfitUsd <= minProfitUsdOrDefault(o.minProfitUsd)
       THEN [isValid |-> FALSE, reason |-> "Not profitable after costs",
             netProfitUsd |-> netProfitUsd]
       ELSE [isValid |-> TRUE, reason |-> "", netProfitUsd |-> netProfitUsd]

\* the opportunities with the costs computed for them, around both gates
ProfitCandidates ==
  [profitUsd : {0, 30, 61, 70, 80, 81, 100, 150}, flashLoanFeeUsd : {0, 1},
   gasCostUsd : {0, 20, 30, 40}, minProfitUsd : {0, 10, 50},
   minProfitMultiplier : {15, 20, 30}]

\* ValidationManager's profitability step on one candidate
AnalyzeProfitability(o) ==
  /\ last = NoOp
  /\ last' = [op |-> "analyzeProfitability", candidate |-> o,
              verdict |-> analyzeProfitability(o)]
  /\ UNCHANGED <<cfgVars, telegram, bot, state, now, lossRun>>

\* EnhancedValidationManager's profitability step on one candidate
ValidateGasCosts(o) ==
  /\ last = NoOp
  /\ last' = [op |-> "_validateGasCosts", candidate |-> o,
              verdict |-> validateGasCostsProfit(o)]
  /\ UNCHANGED <<cfgVars, telegram, bot, state, now, lossRun>>

ProfitNext ==
  \/ \E o \in ProfitCandidates : AnalyzeProfitability(o)
  \/ \E o \in ProfitCandidates : ValidateGasCosts(o)

\* ---------------------------------------------------- the depth checks
\* Amounts and reserves are integers in the smallest unit of their token
\* (BigInt in the source); reserveRatio and priceImpact are kept in
\* hundredths of a percent, the BigInt quotient the source divides by 100.
\* BigInt division, which truncates toward zero; b is not 0
TruncDiv(a, b) ==
  IF (a >= 0) = (b > 0)
    THEN (IF a >= 0 THEN a ELSE -a) \div (IF b > 0 THEN b ELSE -b)
    ELSE -((IF a >= 0 THEN a ELSE -a) \div (IF b > 0 THEN b ELSE -b))

\* getDexReserves for a venue that has the pair: the SushiSwap branch
pairReserves(reserveIn, reserveOut) ==
  [success |-> TRUE, error |-> "", reserveIn |-> reserveIn, reserveOut |-> reserveOut,
   swapRate |-> (reserveOut * 10000) \div reserveIn]

\* getDexReserves for a venue that is unavailable: no pool, no pair, a venue
\* it does not know, a reverted call
UnavailableReserves ==
  {[success |-> FALSE, error |-> e, reserveIn |-> 0, reserveOut |-> 0, swapRate |-> 0] :
     e \in {"No Uniswap V3 liquidity found for pair", "No SushiSwap pair found",
            "Unsupported DEX", "Error getting reserves"}}

\* the verdict of checkDexLiquidity
DepthVerdict(isValid, reason, expectedOutput, reserveRatio, priceImpact, computed) ==
  [isValid |-> isValid, reason |-> reason, expectedOutput |-> expectedOutput,
   reserveRatio |-> reserveRatio, priceImpact |-> priceImpact, computed |-> computed]

\* the slippage tolerance in force: options.slippageTolerance ||
\* this.config.slippageTolerance || 0.5
slippageTolerance100 == 50

\* checkDexLiquidity: the minimum acceptable output of the slippage check
minAcceptableOutput(reserves, amountIn) ==
  (amountIn * reserves.swapRate * (100 - slippageTolerance100)) \div 10000

\* LiquidityValidator.checkDexLiquidity(dexName, tokenIn, tokenOut, amountIn,
\* options) on the reserves that getDexReserves returned, constant-product branch
checkDexLiquidity(reserves, amountIn, slippageCheck) ==
  IF ~reserves.success
    THEN DepthVerdict(FALSE, reserves.error, 0, 0, 0, FALSE)
    ELSE
      LET reserveRatio == (amountIn * 10000) \div reserves.reserveIn
          amountInWithFee == amountIn * 997
          numerator == amountInWithFee * reserves.reserveOut
          denominator == reserves.reserveIn * 1000 + amountInWithFee
          expectedOutput == numerator \div denominator
          spotPrice == (reserves.reserveOut * 10000) \div reserves.reserveIn
          executionPrice == (expectedOutput * 10000) \div amountIn
          priceImpact == TruncDiv((spotPrice - executionPrice) * 10000, spotPrice)
      IN IF reserveRatio > 500
           THEN DepthVerdict(FALSE, "Trade size exceeds maximum safe ratio",
                             0, reserveRatio, 0, FALSE)
         \* a BigInt division by zero throws RangeError, which the catch turns
         \* into a rejection
         ELSE IF amountIn = 0 \/ spotPrice = 0
           THEN DepthVerdict(FALSE, "Error checking DEX liquidity", 0, reserveRatio, 0, FALSE)
         ELSE IF slippageCheck /\ expectedOutput < minAcceptableOutput(reserves, amountIn)
           THEN DepthVerdict(FALSE, "High slippage detected",
                             expectedOutput, reserveRatio, priceImpact, TRUE)
         ELSE IF priceImpact > 300
           THEN DepthVerdict(FALSE, "Price impact too high",
                             expectedOutput, reserveRatio, priceImpact, TRUE)
         ELSE DepthVerdict(TRUE, "", expectedOutput, reserveRatio, priceImpact, TRUE)

\* LiquidityValidator.validateOpportunity(opportunity): the two legs and the
\* price step; c.buy and c.sell are what getDexReserves returns for the two
\* legs.  The profitability steps behind them are taken to pass.
liquidityValidateOpportunity(c) ==
  LET buyLiquidity == checkDexLiquidity(c.buy, c.amountIn, FALSE)
      expectedBuyAmount == buyLiquidity.expectedOutput
      sellLiquidity == checkDexLiquidity(c.sell, expectedBuyAmount, TRUE)
      legs == [tokenA |-> c.tokenA, tokenB |-> c.tokenB, amountIn |-> c.amountIn,
               buyAmount |-> expectedBuyAmount, sellAmount |-> sellLiquidity.expectedOutput]
  IN IF ~buyLiquidity.isValid
       THEN [isValid |-> FALSE, reason |-> "Insufficient buy-side liquidity",
             detail |-> buyLiquidity.reason, side |-> "buy"]
     ELSE IF ~sellLiquidity.isValid
       THEN [isValid |-> FALSE, reason |-> "Insufficient sell-side liquidity",
             detail |-> sellLiquidity.reason, side |-> "sell"]
     ELSE IF ~LiquidityValidatorValidatePriceDifference(legs)
       THEN [isValid |-> FALSE, reason |-> "Unrealistic price difference",
             detail |-> "", side |-> ""]
     ELSE [isValid |-> TRUE, reason |-> "", detail |-> "", side |-> ""]

\* one checkDexLiquidity call of validateOpportunity and what it returned
DepthLeg(side, tokenIn, tokenOut, reserves, amountIn, slippageCheck) ==
  [side |-> side, tokenIn |-> tokenIn, tokenOut |-> tokenOut, amountIn |-> amountIn,
   slippageCheck |-> slippageCheck,
   verdict |-> checkDexLiquidity(reserves, amountIn, slippageCheck)]

\* variant of liquidityLegs that checks the sell leg for the amount put into
\* the buy leg
liquidityLegsFromInput(c) ==
  LET buyLeg == DepthLeg("buy", c.tokenA, c.tokenB, c.buy, c.amountIn, FALSE)
  IN IF ~buyLeg.verdict.isValid
       THEN <<buyLeg>>
       ELSE <<buyLeg, DepthLeg("sell", c.tokenB, c.tokenA, c.sell, c.amountIn, TRUE)>>

\* LiquidityValidator.validateOpportunity(opportunity): the checkDexLiquidity
\* calls it makes, in order
liquidityLegs(c) ==
  LET buyLeg == DepthLeg("buy", c.tokenA, c.tokenB, c.buy, c.amountIn, FALSE)
      expectedBuyAmount == buyLeg.verdict.expectedOutput
  IN IF ~buyLeg.verdict.isValid
       THEN <<buyLeg>>
       ELSE <<buyLeg, DepthLeg("sell", c.tokenB, c.tokenA, c.sell, expectedBuyAmount, TRUE)>>

\* the pools of the monotonicity check and the amounts traded against them
DepthPools == {pairReserves(4000, 4000), pairReserves(8000, 4000)}
DepthAmounts == {0, 1, 10, 50, 67, 99, 100, 150, 200, 250, 450}

\* what the two venues of a candidate answer: a deep pool, a pool too shallow
\* for the trade, a pool whose reserveOut is below reserveIn / 10000 in the
\* smallest units (WETH, with 18 decimals, into USDC, with 6), or no pool
DeepPool == pairReserves(20000, 20000)
ShallowPool == pairReserves(1000, 1000)
SkewedPool == pairReserves(20000, 1)
VenueAnswers == {DeepPool, ShallowPool, SkewedPool} \cup UnavailableReserves
DepthCandidates ==
  [tokenA : {"WETH"}, tokenB : {"USDC"}, amountIn : {100},
   buy : VenueAnswers, sell : VenueAnswers \ {SkewedPool}]

\* checkDexLiquidity on one pool and amount
CheckDexLiquidity(reserves, amountIn, slippageCheck) ==
  /\ last = NoOp
  /\ last' = [op |-> "checkDexLiquidity", reserves |-> reserves,
              slippageCheck |-> slippageCheck, amountIn |-> amountIn,
              verdict |-> checkDexLiquidity(reserves, amountIn, slippageCheck)]
  /\ UNCHANGED <<cfgVars, telegram, bot, state, now, lossRun>>

\* checkDexLiquidity again on the same pool with the same options and a
\* larger amount
CheckLargerAmount(amountIn) ==
  /\ last.op = "checkDexLiquidity"
  /\ amountIn > last.amountIn
  /\ last' = [op |-> "checkLargerAmount", reserves |-> last.reserves,
              slippageCheck |-> last.slippageCheck,
              smaller |-> [amountIn |-> last.amountIn, verdict |-> last.verdict],
              amountIn |-> amountIn,
              verdict |-> checkDexLiquidity(last.reserves, amountIn, last.slippageCheck)]
  /\ UNCHANGED <<cfgVars, telegram, bot, state, now, lossRun>>

\* ValidationManager.validateOpportunity on one candidate whose gas price,
\* price and profitability checks pass: the verdict of its liquidity step
\* and its own
LiquidityValidateOpportunity(c) ==
  /\ last = NoOp
  /\ last' = [op |-> "liquidityValidateOpportunity", candidate |-> c,
              legs |-> liquidityLegs(c),
              verdict |-> liquidityValidateOpportunity(c),
              final |-> validateOpportunity(
                          [gas |-> [ok |-> TRUE, gwei |-> maxGasPrice],
                           liquidity |-> IF liquidityValidateOpportunity(c).isValid
                                           THEN "pass" ELSE "fail",
                           price |-> "pass", profit |-> "pass", simulate |-> FALSE,
                           validationEnabled |-> TRUE])]
  /\ UNCHANGED <<cfgVars, telegram, bot, state, now, lossRun>>

DepthNext ==
  \/ \E r \in DepthPools, a \in DepthAmounts, s \in BOOLEAN : CheckDexLiquidity(r, a, s)
  \/ \E a \in DepthAmounts : CheckLargerAmount(a)
  \/ \E c \in DepthCandidates : LiquidityValidateOpportunity(c)

\* ----------------------------------------------------- the alert throttle
\* telegramConfig.throttleTime || 60000
throttleTime == 60000
\* the alert clock advances by half a throttle window
AlertStep == throttleTime \div 2

\* the levels alerts are sent at
AlertLevels == {"WARNING", "CRITICAL"}

\* TelegramMonitor after its constructor; lastAlertTime[level] is 0 for a
\* level that has no entry (the guard treats a missing entry and 0 alike);
\* delivered is the observer of when a message of the level last went out
TelegramAfterConstructor(ok) ==
  [enabled |-> ok,
   lastAlertTime |-> [l \in AlertLevels |-> 0],
   delivered |-> [l \in AlertLevels |-> 0]]

\* the monitor that the breaker, the orchestrators and the bot run beside
InitialTelegram == TelegramAfterConstructor(TRUE)

\* sendAlert(level, ...): the throttling guard lets the alert through
sendAlertPasses(tg, level, t) ==
  /\ tg.enabled
  /\ ~(tg.lastAlertTime[level] # 0 /\ t - tg.lastAlertTime[level] < throttleTime)

\* variant of sendAlertState that restarts the window on a throttled alert too
sendAlertStateExtendingWindow(tg, level, t, sendOk) ==
  IF ~tg.enabled THEN tg
  ELSE [tg EXCEPT !.lastAlertTime[level] = t,
                  !.delivered[level] =
                     IF sendAlertPasses(tg, level, t) /\ sendOk THEN t ELSE @]

\* sendAlert(level, message, data) at time t: the monitor it leaves; sendOk
\* is whether bot.sendMessage resolves
sendAlertState(tg, level, t, sendOk) ==
  IF ~sendAlertPasses(tg, level, t) THEN tg
  ELSE [tg EXCEPT !.lastAlertTime[level] = t,
                  !.delivered[level] = IF sendOk THEN t ELSE @]

\* sendAlert(level, message, data): the value it resolves to
sendAlertResult(tg, level, t, sendOk) == sendAlertPasses(tg, level, t) /\ sendOk

\* the constructor has found the telegram configuration or has not; the
\* clock shows a time after the epoch
AlertInit ==
  /\ enabled \in BOOLEAN
  /\ maxConsecutiveFailures \in FailureCfgs
  /\ maxDailyLoss \in DailyLossCfgs
  /\ cooldownPeriodMinutes \in CooldownCfgs
  /\ state = InitialState
  /\ now = AlertStep
  /\ last = NoOp
  /\ lossRun = 0
  /\ bot = InitialBot
  /\ telegram \in {TelegramAfterConstructor(ok) : ok \in BOOLEAN}

\* the clock advances by half a throttle window
AlertTick ==
  /\ now < AlertStep * (1 + MaxAlertTicks)
  /\ now' = now + AlertStep
  /\ UNCHANGED <<cfgVars, telegram, bot, state, last, lossRun>>

\* TelegramMonitor.sendAlert(level, message, data)
SendAlert(level, sendOk) ==
  /\ telegram' = sendAlertState(telegram, level, now, sendOk)
  /\ last' = [op |-> "sendAlert", level |-> level, sendOk |-> sendOk, at |-> now,
              ret |-> sendAlertResult(telegram, level, now, sendOk)]
  /\ UNCHANGED <<cfgVars, bot, state, now, lossRun>>

AlertNext ==
  \/ AlertTick
  \/ \E level \in AlertLevels, sendOk \in BOOLEAN : SendAlert(level, sendOk)

Init ==
  /\ BreakerInit
  /\ bot = InitialBot
  /\ telegram = InitialTelegram

\* the bot constructed and initialized, no loop started
ScanInit ==
  /\ BreakerInit
  /\ bot \in {[InitialBot EXCEPT !.pc = "idle", !.autoExecute = a] : a \in BOOLEAN}
  /\ telegram = InitialTelegram

\* the operations of the circuit breaker
BreakerNext ==
  \/ Tick
  \/ \E profit \in Profits, gasUsed \in GasCosts : RecordExecution(profit, gasUsed)
  \/ IsTripped
  \/ GetStatus
  \/ \E p \in PriceData, l \in LiquidityData : CheckMarketConditions(p, l)
  \/ TripCircuitBreaker
  \/ ResetDailyStats

\* EnhancedValidationManager, the orchestrator that holds a breaker
EnhancedCalls ==
  \E in \in ValidationInputs : EnhancedValidateOpportunity(in)

\* the two orchestrators called directly
ValidationCalls ==
  \/ \E in \in {i \in ValidationInputs : i.validationEnabled} : ValidateOpportunity(in)
  \/ EnhancedCalls

\* the orchestrators, with the breaker driven by recordings, direct trips and time
ValidationNext ==
  \/ Tick
  \/ \E profit \in Profits, gasUsed \in GasCosts : RecordExecution(profit, gasUsed)
  \/ TripCircuitBreaker
  \/ ValidationCalls

\* the bot, with the breaker driven by direct trips, status queries and time
BotNext ==
  \/ Tick
  \/ TripCircuitBreaker
  \/ IsTripped
  \/ \E a \in BOOLEAN : BotInitialize(a)
  \/ BotStart
  \/ BotStop
  \/ \E gas \in GasObservations : ScanBegin(gas)
  \/ \E in \in {i \in ValidationInputs : i.validationEnabled} : ScanCandidate(in)
  \/ ScanEnd
  \/ ScanWake
  \/ \E sent \in BOOLEAN : ExecuteSubmit(sent)
  \/ ExecuteConfirm
  \/ LockRelease

\* the daily reset over an audit trail of any length up to MaxAudit
ResetNext ==
  \/ \E profit \in Profits, gasUsed \in GasCosts : RecordExecution(profit, gasUsed)
  \/ TripForAudit
  \/ ResetDailyStats

\* the breaker operations and, between them, validateOpportunity calls of
\* the orchestrator that holds a breaker: disabled, rejected at the breaker
\* gate, failing in the first check behind it, or valid
Next ==
  \/ BreakerNext
  \/ \E in \in {i \in ValidationInputs :
                  GasNormal(i) /\ ~i.simulate /\ i.price = "pass" /\ i.profit = "pass"} :
       EnhancedValidateOpportunity(in)

\* a breaker configured to trip one failure before the longest run of
\* failures explored, so that a failure after the trip is explored too
RetripInit ==
  /\ enabled \in BOOLEAN
  /\ maxConsecutiveFailures = MaxRun - 1
  /\ maxDailyLoss \in DailyLossCfgs
  /\ cooldownPeriodMinutes \in CooldownCfgs
  /\ state = InitialState
  /\ now = 0
  /\ last = NoOp
  /\ lossRun = 0
  /\ bot = InitialBot
  /\ telegram = InitialTelegram

\* recordings, cooldown expiry and the daily reset
RetripNext ==
  \/ Tick
  \/ \E profit \in Profits, gasUsed \in GasCosts : RecordExecution(profit, gasUsed)
  \/ IsTripped
  \/ ResetDailyStats

vars == <<breakerVars, bot, telegram>>

\* breaker operations and the orchestrator that holds a breaker
Spec == Init /\ [][Next]_vars
\* breaker operations alone
BreakerSpec == Init /\ [][BreakerNext]_vars
\* the orchestrators over a breaker tripped by recordings and direct trips
ValidationSpec == Init /\ [][ValidationNext]_vars
\* the scan loop and the execution layer
BotSpec == Init /\ [][BotNext]_vars
\* the price plausibility checks applied to the candidates
PriceSpec == Init /\ [][PriceNext]_vars
\* the profitability step of both orchestrators applied to the candidates
ProfitSpec == Init /\ [][ProfitNext]_vars
\* the depth checks applied to pools, amounts and candidates
DepthSpec == Init /\ [][DepthNext]_vars
\* the daily reset and the audit trail
ResetSpec == Init /\ [][ResetNext]_vars

\* failures recorded across a trip, its cooldown expiry and the daily reset
RetripSpec == RetripInit /\ [][RetripNext]_vars
\* alerts sent through the Telegram monitor as time passes
AlertSpec == AlertInit /\ [][AlertNext]_vars
\* scan loops started and stopped, and the executions they and others make
ScanSpec == ScanInit /\ [][ScanNext]_vars

\* ============================================================ properties
\* some recordExecution step, and one with a positive net profit
AnyRecordExecution ==
  \E profit \in Profits, gasUsed \in GasCosts : RecordExecution(profit, gasUsed)
ProfitableRecordExecution ==
  \E profit \in Profits, gasUsed \in GasCosts :
    profit - gasUsed > 0 /\ RecordExecution(profit, gasUsed)

\* C1: with the breaker enabled, right after the recording that completes a
\* run of maxConsecutiveFailures (or more) consecutive recordings with
\* profit - gasUsed <= 0 the breaker is active, and from then on every
\* isTripped() made before cooldownUntil returns true.
C1_TripsAfterMaxFailures ==
  /\ [](enabled /\ last.op = "recordExecution" /\ lossRun >= maxConsecutiveFailures
          => state.active)
  /\ [][(enabled /\ now < state.cooldownUntil /\ IsTripped) => last'.ret]_vars

\* C1 witness: isTripped() has answered true after a run of
\* maxConsecutiveFailures losing recordings tripped the breaker
C1_Witness ==
  /\ enabled /\ lossRun >= maxConsecutiveFailures
  /\ Len(state.breaches) > 0 /\ state.breaches[1] = MaxFailuresReason
  /\ last.op = "isTripped" /\ last.ret

\* C2: while state.active, isTripped() before cooldownUntil returns true and
\* leaves active true; the isTripped() that first runs at or after cooldownUntil
\* returns false and sets active to false.
C2_LazyExpiry ==
  [][(IsTripped /\ state.active) =>
       IF now < state.cooldownUntil
         THEN last'.ret /\ state'.active /\ state' = state
         ELSE ~last'.ret /\ ~state'.active]_vars

\* C2 witness: an isTripped() at or after cooldownUntil has just reset the trip
C2_Witness ==
  /\ last.op = "isTripped" /\ last.expired /\ ~last.ret
  /\ ~state.active /\ now >= state.cooldownUntil /\ Len(state.breaches) > 0

\* C3: a recordExecution with positive net profit made while the breaker is
\* active leaves it active, and no breaker operation takes state.active from
\* true to false except isTripped() at or after cooldownUntil or the daily reset.
C3_OnlyExpiryClears ==
  /\ [][(ProfitableRecordExecution /\ state.active) => state'.active]_vars
  /\ [][(state.active /\ ~state'.active) =>
          ((IsTripped /\ now >= state.cooldownUntil) \/ ResetDailyStats)]_vars

\* C3 witness: a profitable recording made while tripped, with no daily-loss
\* breach involved, and the breaker still tripped
C3_Witness ==
  /\ last.op = "recordExecution" /\ last.net > 0
  /\ state.dailyLoss <= maxDailyLoss
  /\ state.active /\ now < state.cooldownUntil

\* C4: no status query, isTripped() or getStatus(), made when
\* now >= cooldownUntil reports the breaker as active.
C4_NoStaleActive ==
  [][((IsTripped \/ GetStatus) /\ enabled /\ now >= state.cooldownUntil)
       => ~last'.ret]_vars

\* C5: a recording trips on daily loss exactly when the loss accumulated after
\* it is strictly above maxDailyLoss; a recording that leaves the accumulated
\* loss at or below maxDailyLoss, with fewer than maxConsecutiveFailures
\* failures in a row, trips nothing.
C5_DailyLossTripTiming ==
  [][(AnyRecordExecution /\ enabled) =>
       IF state'.dailyLoss > maxDailyLoss
         THEN /\ state'.active
              /\ state'.breaches[Len(state'.breaches)] = DailyLossReason
         ELSE lossRun' < maxConsecutiveFailures =>
                /\ state'.active = state.active
                /\ state'.cooldownUntil = state.cooldownUntil
                /\ state'.breaches = state.breaches]_vars

\* C5 witness: losses L1 then L2 with |L1| <= maxDailyLoss < |L1| + |L2|,
\* fewer than maxConsecutiveFailures failures, and the one breach recorded at L2
C5_Witness ==
  /\ enabled /\ maxDailyLoss = 1 /\ state.dailyLoss = 2
  /\ state.executionHistory = 2 /\ lossRun = 2 /\ lossRun < maxConsecutiveFailures
  /\ last.op = "recordExecution" /\ last.net < 0
  /\ state.active /\ state.breaches = <<DailyLossReason>>

\* C6: a recordExecution with positive net profit never sets state.active,
\* never moves cooldownUntil and never appends a breach, in any reachable state.
C6_ProfitNeverTrips ==
  [][ProfitableRecordExecution =>
       /\ state'.active => state.active
       /\ state'.cooldownUntil = state.cooldownUntil
       /\ state'.breaches = state.breaches]_vars

\* C7: consecutiveFailures is the number of losing recordings since the most
\* recent profitable one; only a recording changes it and only a profitable
\* recording takes it back to 0, so validateOpportunity, isTripped, getStatus,
\* checkMarketConditions and the daily reset leave it alone.
C7_FailureCounter ==
  /\ [](enabled => state.consecutiveFailures = lossRun)
  /\ [][state'.consecutiveFailures # state.consecutiveFailures
          => AnyRecordExecution]_vars
  /\ [][(state.consecutiveFailures > 0 /\ state'.consecutiveFailures = 0)
          => ProfitableRecordExecution]_vars

\* C7 witness: a run of two losing recordings is still counted after a daily
\* reset followed by a validateOpportunity call
C7_Witness ==
  /\ enabled /\ state.consecutiveFailures = 2 /\ lossRun = 2
  /\ state.executionHistory = 0
  /\ last.op = "enhancedValidateOpportunity"

\* C8: a validateOpportunity call made while the breaker is tripped returns
\* isValid = false with reason 'Circuit breaker active' and a status snapshot,
\* having invoked no other check.
C8_BreakerIsFirstGate ==
  [][(ValidationCalls /\ isTrippedResult(state, now)) =>
       /\ ~last'.ret
       /\ last'.reason = "Circuit breaker active"
       /\ last'.checks = <<"breaker">>
       /\ last'.snapshot # "none"]_vars

\* C9: _executeArbitrage submits no transaction at a moment when the breaker
\* is tripped (active and now < cooldownUntil).
C9_NoSubmissionWhileTripped == ~bot.txWhileTripped

\* C10: a validateOpportunity call that meets a gas price above maxGasPrice
\* (and is not stopped by the disabled flag or by the breaker gate) rejects
\* with the gas-price reason without having invoked the liquidity or the
\* price check.
C10_GasPriceIsFirstCheck ==
  (/\ last.op \in {"validateOpportunity", "enhancedValidateOpportunity"}
   /\ last.gasHigh
   /\ last.reason \notin {"Validation disabled", "Circuit breaker active"})
  => /\ ~last.ret
     /\ last.reason = "Gas price too high"
     /\ \A i \in 1..Len(last.checks) : last.checks[i] \notin {"liquidity", "price"}

\* C11: within one validateOpportunity call the checks run in the order
\* breaker, gas price, depth, price plausibility, cost/profitability (the two
\* depth checks of the liquidity step taken as one), each at most once;
\* nothing runs after the first failing check, and isValid = true is returned
\* only when every check ran and passed.
C11_FixedCheckOrder ==
  last.op \in {"validateOpportunity", "enhancedValidateOpportunity"} =>
    LET order == <<"breaker", "gas_price", "liquidity", "price", "profitability">>
        cs == SelectSeq(last.checks, LAMBDA c : c # "simulation")
    IN /\ Len(cs) <= Len(order)
       /\ cs = SubSeq(order, 1, Len(cs))
       /\ last.ret => cs = order

\* a validateOpportunity call of either orchestrator has just returned after
\* an exception was raised inside one of its checks
ValidationRaised ==
  /\ last.op \in {"validateOpportunity", "enhancedValidateOpportunity"}
  /\ last.raised

BreachRecorded(reason) == \E i \in 1..Len(state.breaches) : state.breaches[i] = reason

\* C20: recordExecution updates the counters and evaluates the trip conditions
\* in one step, so no state that another breaker operation can observe has
\* the failure counter at or above maxConsecutiveFailures, or the daily loss
\* above maxDailyLoss, without the matching trip having been made; and every
\* losing recording adds exactly one to consecutiveFailures and leaves the
\* breaker tripped when the counter has reached maxConsecutiveFailures.
\* (A recording is the step that lengthens executionHistory.)
C20_RecordExecutionAtomic ==
  /\ [](enabled =>
          /\ state.consecutiveFailures >= maxConsecutiveFailures
               => (BreachRecorded(MaxFailuresReason) /\ state.cooldownUntil > 0)
          /\ state.dailyLoss > maxDailyLoss
               => (BreachRecorded(DailyLossReason) /\ state.cooldownUntil > 0))
  /\ [][(/\ enabled /\ last'.op = "recordExecution" /\ last'.net <= 0
          /\ state'.executionHistory = state.executionHistory + 1) =>
          /\ state'.consecutiveFailures = state.consecutiveFailures + 1
          /\ lossRun' = state'.consecutiveFailures
          /\ state'.consecutiveFailures >= maxConsecutiveFailures =>
               (state'.active /\ state'.cooldownUntil > now)]_vars

\* C20 witness: a status query made right after the losing recording that
\* completed a run of maxConsecutiveFailures sees the counter and the trip
C20_Witness ==
  /\ enabled /\ last.op = "getStatus" /\ last.ret
  /\ lossRun = maxConsecutiveFailures
  /\ state.consecutiveFailures = maxConsecutiveFailures
  /\ state.breaches[Len(state.breaches)] = MaxFailuresReason

\* C19: resetDailyStats sets dailyLoss to 0 and executionHistory to empty,
\* keeps exactly the most recent min(10, n) of the n breaches in their order,
\* and leaves active, cooldownUntil and consecutiveFailures as they were.
C19_DailyResetEffect ==
  [][ResetDailyStats =>
       LET n == Len(state.breaches)
           k == IF n < KeepBreaches THEN n ELSE KeepBreaches
       IN /\ state'.dailyLoss = 0
          /\ state'.executionHistory = 0
          /\ Len(state'.breaches) = k
          /\ \A i \in 1..k : state'.breaches[i] = state.breaches[n - k + i]
          /\ state'.active = state.active
          /\ state'.cooldownUntil = state.cooldownUntil
          /\ state'.consecutiveFailures = state.consecutiveFailures]_vars

\* C19 witness: a daily reset has just dropped the oldest of eleven breaches
\* of a tripped breaker that had counted a failure; the ten kept start with
\* the daily-loss breach that was second
C19_Witness ==
  /\ last.op = "resetDailyStats" /\ last.dropped = 1
  /\ Len(state.breaches) = KeepBreaches
  /\ state.breaches[1] = DailyLossReason /\ state.breaches[2] = ManualReason
  /\ state.active /\ state.cooldownUntil > 0 /\ state.consecutiveFailures = 1
  /\ state.dailyLoss = 0 /\ state.executionHistory = 0

\* C14: at a spread of 0.5% the price validator rejects every pair of two
\* stablecoins and accepts every pair of two mainstream tokens.
C14_StablecoinTightness ==
  (last.op = "validatePrice" /\ last.candidate.spread = 50) =>
    /\ (last.candidate.tokenA \in stablecoins /\ last.candidate.tokenB \in stablecoins)
         => ~last.price.isValid
    /\ (last.candidate.tokenA \in mainstream /\ last.candidate.tokenB \in mainstream)
         => last.price.isValid

\* C14 witness: a pair of two stablecoins has been rejected at 0.5%
C14_Witness ==
  /\ last.op = "validatePrice" /\ last.candidate.spread = 50
  /\ last.candidate.tokenA = "BUSD" /\ last.candidate.tokenB = "USDC"
  /\ ~last.price.isValid /\ last.price.failed = "recent_spreads"

\* C15: a candidate whose spread is above its tiered threshold is rejected by
\* the pipeline only if the rolling-window, reference-price or attack-pattern
\* check fails; when all three pass the verdict is valid and its warnings
\* list carries the price warning.
C15_ElevatedSpreadWarning ==
  (/\ last.op = "validatePrice"
   /\ last.candidate.spread > getDeviationThreshold(last.candidate.tokenA,
                                                    last.candidate.tokenB)) =>
    LET c == last.candidate
        allPass == /\ checkAgainstRecentSpreads(c.tokenA, c.tokenB, c.spread)
                   /\ compareWithMarketPrices(c.tokenA, c.tokenB, c.spread)
                   /\ checkForAttackPatterns(c.spread, c.large)
    IN IF allPass
         THEN last.verdict.isValid /\ "price" \in last.verdict.warnings
         ELSE ~last.verdict.isValid

C16_DepthMonotone ==
  (last.op = "checkLargerAmount" /\ last.smaller.amountIn > 0) =>
    /\ last.smaller.verdict.reserveRatio <= last.verdict.reserveRatio
    /\ (last.smaller.verdict.computed /\ last.verdict.computed)
         => last.smaller.verdict.priceImpact <= last.verdict.priceImpact
    /\ ~last.smaller.verdict.isValid => ~last.verdict.isValid

\* C17: when both venues of a candidate are unavailable, validateOpportunity
\* returns a rejection whose reason is not the one that a rejection for
\* exceeding a liquidity threshold carries.
C17_NoComparableQuotes ==
  (/\ last.op = "liquidityValidateOpportunity"
   /\ last.candidate.buy \in UnavailableReserves
   /\ last.candidate.sell \in UnavailableReserves) =>
    /\ ~last.final.isValid
    /\ last.verdict.reason \notin {"Insufficient buy-side liquidity",
                                   "Insufficient sell-side liquidity"}

\* C18: for a candidate whose pools are deep enough for both legs, with a
\* normal gas price and passing price and profitability checks,
\* validateOpportunity returns isValid = true.
C18_ValidVerdictReachable ==
  (/\ last.op = "liquidityValidateOpportunity"
   /\ last.candidate.buy = DeepPool
   /\ last.candidate.sell = DeepPool) => last.final.isValid

\* C21: with the breaker enabled and not inside an unexpired cooldown (never
\* tripped, or now >= cooldownUntil), checkMarketConditions with a price
\* deviation above priceDeviationPercent or a liquidity availability below
\* liquidityThresholdPercent trips the breaker (active, cooldownUntil = now +
\* cooldown, one breach appended) and returns false; with neither threshold
\* violated it returns true and changes no state.
C21_MarketConditionsTrip ==
  [][\A p \in PriceData, l \in LiquidityData :
       (CheckMarketConditions(p, l) /\ enabled
          /\ (~state.active \/ now >= state.cooldownUntil)) =>
         IF \/ p.present /\ p.deviationPercent > priceDeviationPercent
            \/ l.present /\ l.availablePercent < liquidityThresholdPercent
           THEN /\ ~last'.ret
                /\ state'.active
                /\ state'.cooldownUntil = now + cooldownPeriodMinutes * MsPerMinute
                /\ Len(state'.breaches) = Len(state.breaches) + 1
           ELSE last'.ret /\ state' = state]_vars

\* C27: a single recordExecution call trips the breaker at most once: it
\* appends at most one breach (and so emits at most one trip notification,
\* tripCircuitBreaker logging once per breach), even when the consecutive-
\* failure condition and the daily-loss condition both become true in it.
C27_OneTripPerRecording ==
  [][(last'.op = "recordExecution"
        /\ state'.executionHistory = state.executionHistory + 1) =>
       Len(state'.breaches) <= Len(state.breaches) + 1]_vars

\* C28: cooldown expiry resets only active, and neither expiry nor the daily
\* reset resets consecutiveFailures; so a recording with net profit <= 0 made
\* when the counter is already at maxConsecutiveFailures (after a failure trip
\* and its expiry) re-trips at once; every trip sets cooldownUntil to
\* now + cooldownPeriod, and cooldownUntil never decreases.
C28_ExpiryKeepsFailureCount ==
  /\ [][(last'.op = "isTripped" /\ now' = now) =>
          state' = [state EXCEPT !.active = state'.active]]_vars
  /\ [][(last'.op = "resetDailyStats" /\ now' = now) =>
          /\ state'.consecutiveFailures = state.consecutiveFailures
          /\ state'.active = state.active
          /\ state'.cooldownUntil = state.cooldownUntil]_vars
  /\ [][(/\ last'.op = "recordExecution"
         /\ state'.executionHistory = state.executionHistory + 1
         /\ last'.net <= 0
         /\ state.consecutiveFailures >= maxConsecutiveFailures) =>
          /\ state'.active
          /\ state'.cooldownUntil = now + cooldownPeriodMinutes * MsPerMinute
          /\ Len(state'.breaches) > Len(state.breaches)
          /\ state'.breaches[Len(state.breaches) + 1] = MaxFailuresReason]_vars
  /\ [][Len(state'.breaches) > Len(state.breaches) =>
          state'.cooldownUntil = now + cooldownPeriodMinutes * MsPerMinute]_vars
  /\ [][state'.cooldownUntil >= state.cooldownUntil]_vars

\* C28 witness: a failure trip at time 0, its expiry one cooldown later, and
\* one further failing recording that has tripped the breaker again
C28_Witness ==
  /\ enabled /\ now = cooldownPeriodMinutes * MsPerMinute
  /\ last.op = "recordExecution" /\ last.net <= 0
  /\ state.consecutiveFailures = maxConsecutiveFailures + 1
  /\ state.active /\ state.cooldownUntil = now + cooldownPeriodMinutes * MsPerMinute
  /\ state.breaches = <<MaxFailuresReason, MaxFailuresReason>>

\* C29: with circuitBreakers.enabled false the breaker is inert and safe to
\* call: isTripped() returns false, checkMarketConditions returns true, and
\* recordExecution, tripCircuitBreaker and getStatus complete without throwing
\* and never report or produce an active breaker, after any sequence of calls.
C29_DisabledBreakerInert ==
  ~enabled =>
    /\ ~last.threw
    /\ ~state.active
    /\ last.op \in {"isTripped", "getStatus"} => ~last.ret
    /\ last.op = "checkMarketConditions" => last.ret

\* C23: depth validation of the two legs is chained: the buy leg is checked
\* first, on amountIn from tokenA into tokenB; the sell leg is checked only
\* after the buy leg passed, from tokenB into tokenA on exactly the buy leg's
\* expectedOutput; a buy-leg failure gives a rejection with side "buy" and a
\* sell-leg failure one with side "sell".
C23_ChainedDepthLegs ==
  last.op = "liquidityValidateOpportunity" =>
    LET legs == last.legs
        c == last.candidate
    IN /\ Len(legs) \in {1, 2}
       /\ legs[1].side = "buy" /\ legs[1].amountIn = c.amountIn
       /\ legs[1].tokenIn = c.tokenA /\ legs[1].tokenOut = c.tokenB
       /\ Len(legs) = 2 <=> legs[1].verdict.isValid
       /\ ~legs[1].verdict.isValid =>
            ~last.verdict.isValid /\ last.verdict.side = "buy"
       /\ Len(legs) = 2 =>
            /\ legs[2].side = "sell"
            /\ legs[2].amountIn = legs[1].verdict.expectedOutput
            /\ legs[2].tokenIn = c.tokenB /\ legs[2].tokenOut = c.tokenA
            /\ ~legs[2].verdict.isValid =>
                 ~last.verdict.isValid /\ last.verdict.side = "sell"

\* C23 witness: a candidate whose buy leg passed with an output below its
\* input and whose sell leg, checked on that output, was rejected
C23_Witness ==
  /\ last.op = "liquidityValidateOpportunity"
  /\ Len(last.legs) = 2
  /\ last.legs[1].verdict.isValid
  /\ last.legs[2].amountIn < last.candidate.amountIn
  /\ ~last.legs[2].verdict.isValid
  /\ last.verdict.side = "sell"

\* C24: with the slippage check enabled, checkDexLiquidity rejects for
\* slippage exactly when expectedOutput is below the minimum acceptable
\* output, and that minimum is the zero-impact spot output
\* amountIn * reserveOut / reserveIn reduced by the tolerance, so it never
\* exceeds the spot output.
C24_SlippageMinimum ==
  (/\ last.op \in {"checkDexLiquidity", "checkLargerAmount"}
   /\ last.slippageCheck
   /\ last.verdict.computed) =>
    /\ last.verdict.reason = "High slippage detected" <=>
         last.verdict.expectedOutput < minAcceptableOutput(last.reserves, last.amountIn)
    /\ minAcceptableOutput(last.reserves, last.amountIn) <=
         (last.amountIn * last.reserves.reserveOut) \div last.reserves.reserveIn

\* C30 as stated: with the seeded spread history, validatePriceDifference
\* accepts a candidate if and only if its spread is at most the pair's tier
\* threshold, and never returns a valid verdict with a warning.
C30_AcceptIffWithinThreshold ==
  last.op = "validatePrice" =>
    /\ last.price.isValid <=>
         last.candidate.spread <= getDeviationThreshold(last.candidate.tokenA,
                                                        last.candidate.tokenB)
    /\ ~last.price.warning

\* C30: with the seeded spread history, a spread at most the tier threshold
\* is accepted without warning; a spread above it is rejected by the
\* rolling-window check, except for a pair with no USDC, USDT or DAI in it
\* whose tier threshold (the stablecoin one, 0.20%) lies below the 3-sigma
\* limit of the default window (0.354%): there a spread up to that limit is
\* accepted with the warning.
C30_AcceptanceBySpread ==
  last.op = "validatePrice" =>
    LET c == last.candidate
    IN IF c.spread <= getDeviationThreshold(c.tokenA, c.tokenB)
         THEN last.price.isValid /\ ~last.price.warning
       ELSE IF {c.tokenA, c.tokenB} \subseteq {"BUSD", "TUSD", "FRAX"} /\ c.spread <= 35
         THEN last.price.isValid /\ last.price.warning
       ELSE ~last.price.isValid /\ last.price.failed = "recent_spreads"

\* C30 witness: a BUSD/TUSD candidate at 0.30%, above the 0.20% threshold
\* and inside the default window, accepted with the warning
C30_Witness ==
  /\ last.op = "validatePrice"
  /\ {last.candidate.tokenA, last.candidate.tokenB} = {"BUSD", "TUSD"}
  /\ last.candidate.spread = 30
  /\ last.price.isValid /\ last.price.warning

\* C22: for each level, any two alerts that sendAlert lets out are at least
\* throttleTime apart; an alert arriving less than throttleTime after the
\* last one let out at its level is dropped (sendAlert returns false) and
\* does not restart the throttle window; alerts of different levels never
\* throttle each other.
C22_AlertThrottling ==
  /\ [][(last'.op = "sendAlert" /\ now' = now /\ last'.ret
           /\ telegram.delivered[last'.level] # 0) =>
          now - telegram.delivered[last'.level] >= throttleTime]_vars
  /\ [][(last'.op = "sendAlert" /\ now' = now
           /\ telegram.delivered[last'.level] # 0
           /\ now - telegram.delivered[last'.level] < throttleTime) =>
          ~last'.ret /\ telegram' = telegram]_vars
  /\ [][(last'.op = "sendAlert" /\ now' = now) =>
          /\ \A l \in AlertLevels \ {last'.level} :
               /\ telegram'.lastAlertTime[l] = telegram.lastAlertTime[l]
               /\ telegram'.delivered[l] = telegram.delivered[l]
          /\ (/\ telegram.enabled /\ last'.sendOk
              /\ \/ telegram.lastAlertTime[last'.level] = 0
                 \/ now - telegram.lastAlertTime[last'.level] >= throttleTime) =>
               last'.ret]_vars

\* C22 witness: a CRITICAL alert dropped half a window after the last one
\* delivered, at the instant a WARNING alert went out
C22_Witness ==
  /\ last.op = "sendAlert" /\ last.level = "CRITICAL" /\ last.sendOk /\ ~last.ret
  /\ telegram.enabled
  /\ telegram.delivered["CRITICAL"] = now - AlertStep
  /\ telegram.lastAlertTime["CRITICAL"] = now - AlertStep
  /\ telegram.delivered["WARNING"] = now

\* C25: at most one scan loop is active at any time, for every interleaving
\* of startScanning and stopScanning calls (stopScanning followed by
\* startScanning while the previous loop sleeps between passes included);
\* and a loop that wakes after a stopScanning with no later startScanning
\* returns.
C25_SingleScanLoop ==
  /\ [](ActiveLoops(bot) <= 1)
  /\ [][(last'.op = "loopWake" /\ last'.ret = "next pass") => bot.isScanning]_vars

\* C26: executionLock gives mutual exclusion of executions: at most one
\* _executeArbitrage is between taking the lock and returning, and the lock
\* is set for as long as it is; a call made while the lock is held returns
\* 'Execution locked' without sending a transaction and without scheduling
\* a release; the delayed release of one execution never fires while
\* another execution is in flight.
C26_ExecutionLockExclusion ==
  /\ [](InFlight(bot) <= 1 /\ (InFlight(bot) = 1 => bot.executionLock))
  /\ [][(ExecuteArbitrageDirect /\ bot.executionLock) =>
          last'.ret = "Execution locked" /\ bot' = bot]_vars
  /\ [][bot'.timers < bot.timers => InFlight(bot) = 0 /\ ~bot'.executionLock]_vars
  /\ [][bot'.timers > bot.timers => InFlight(bot') = InFlight(bot) - 1]_vars

\* C26 witness: two loops alive, one inside _executeArbitrage awaiting its
\* receipt, and a call from outside turned away with 'Execution locked'
C26_Witness ==
  /\ last.op = "_executeArbitrage" /\ last.ret = "Execution locked"
  /\ Len(bot.loops) = 2
  /\ \E i \in 1..2 : bot.loops[i] = "confirm"
  /\ bot.executionLock /\ bot.timers = 0 /\ bot.submitted = 1

====
